---- MODULE Spec2Model ----
(***************************************************************************)
(* Model of the mappable algorithms (mappable_algorithms.hpp): overlap and *)
(* containment queries over forward-sorted ranges of ContigRegion.         *)
(*                                                                         *)
(* A range [first, last) of a std::vector is a sequence S with iterators   *)
(* modelled as indices 1..Len(S)+1 (last = Len(S)+1).  A predicate or a    *)
(* comparator applied to the elements of S is passed to the std algorithms *)
(* as a function from index to BOOLEAN.                                    *)
(***************************************************************************)
EXTENDS Integers, Sequences, FiniteSets, TLC

VARIABLES S, q, op, res

vars == <<S, q, op, res>>

(* Bounds of the model. *)
MaxPos == 3
MaxLen == 3

(* std::numeric_limits<Size>::max() of the (narrow) model Position type. *)
PositionMax == MaxPos + 2

(***************************************************************************)
(* ContigRegion primitives (contig_region.hpp / mappable.hpp).             *)
(* Half-open [b, e).  An empty region overlaps what it touches: the        *)
(* callers depend on it (find_first_after scans past its lower_bound, the  *)
(* BidirectionallySorted overlap_range widens "for insertions",            *)
(* has_coverage drops empty regions from an overlap range).                *)
(***************************************************************************)
Region(b, e) == [b |-> b, e |-> e]

Regions(maxp) == {r \in [b : 0..maxp, e : 0..maxp] : r.b <= r.e}

mapped_begin(m) == m.b

mapped_end(m) == m.e

region_size(m) == m.e - m.b

is_empty_region(m) == m.b = m.e

Min2(a, b) == IF a <= b THEN a ELSE b

Max2(a, b) == IF a >= b THEN a ELSE b

overlap_size(lhs, rhs) == Min2(lhs.e, rhs.e) - Max2(lhs.b, rhs.b)

overlaps(lhs, rhs) ==
    LET overlapped == overlap_size(lhs, rhs)
    IN  overlapped > 0 \/ (overlapped = 0 /\ (is_empty_region(lhs) \/ is_empty_region(rhs)))

contains(lhs, rhs) == lhs.b <= rhs.b /\ rhs.e <= lhs.e

begins_before(lhs, rhs) == lhs.b < rhs.b

ends_before(lhs, rhs) == lhs.e < rhs.e

is_same_region(lhs, rhs) == lhs.b = rhs.b /\ lhs.e = rhs.e

(* operator< of ContigRegion: (begin, end) lexicographically. *)
RegionLess(lhs, rhs) == IF lhs.b = rhs.b THEN lhs.e < rhs.e ELSE lhs.b < rhs.b

is_before(lhs, rhs) == lhs.e <= rhs.b /\ ~is_same_region(lhs, rhs)

is_after(lhs, rhs) == rhs.e <= lhs.b /\ ~is_same_region(lhs, rhs)

next_mapped_position(m) == Region(m.e, m.e + 1)

shift(m, n) == Region(m.b + n, m.e + n)

(***************************************************************************)
(* <algorithm>, on index ranges [first, last) with p[i] the value of the   *)
(* predicate on element i.                                                 *)
(***************************************************************************)
RECURSIVE Bisect(_, _, _)
(* The loop of std::lower_bound / std::upper_bound: goRight[mid] is        *)
(* comp(elem mid, value) for lower_bound and !comp(value, elem mid) for    *)
(* upper_bound.                                                            *)
Bisect(goRight, first, len) ==
    IF len <= 0 THEN first
    ELSE LET half == len \div 2
             mid  == first + half
         IN  IF goRight[mid]
             THEN Bisect(goRight, mid + 1, len - half - 1)
             ELSE Bisect(goRight, first, half)

lower_bound(compElemValue, first, last) == Bisect(compElemValue, first, last - first)

upper_bound(compValueElem, first, last) ==
    Bisect([i \in DOMAIN compValueElem |-> ~compValueElem[i]], first, last - first)

find_if(p, first, last) ==
    IF \E i \in first..(last - 1) : p[i]
    THEN CHOOSE i \in first..(last - 1) : p[i] /\ \A j \in first..(i - 1) : ~p[j]
    ELSE last

find_if_not(p, first, last) == find_if([i \in DOMAIN p |-> ~p[i]], first, last)

(* find_if over reverse iterators make_reverse_iterator(rfirst) ..         *)
(* make_reverse_iterator(rlast): visits rfirst-1 down to rlast; the result *)
(* is the base() of the iterator found.                                    *)
find_if_reverse(p, rfirst, rlast) ==
    IF \E i \in rlast..(rfirst - 1) : p[i]
    THEN (CHOOSE i \in rlast..(rfirst - 1) : p[i] /\ \A j \in (i + 1)..(rfirst - 1) : ~p[j]) + 1
    ELSE rlast

find_if_not_reverse(p, rfirst, rlast) ==
    find_if_reverse([i \in DOMAIN p |-> ~p[i]], rfirst, rlast)

is_sorted(compNextPrev) == \A i \in DOMAIN compNextPrev : ~compNextPrev[i]

(***************************************************************************)
(* Sortedness.                                                             *)
(***************************************************************************)
ForwardSorted(s) == is_sorted([i \in 1..(Len(s) - 1) |-> RegionLess(s[i + 1], s[i])])

BidirLess(lhs, rhs) == RegionLess(lhs, rhs) \/ ends_before(lhs, rhs)

is_bidirectionally_sorted(s) ==
    is_sorted([i \in 1..(Len(s) - 1) |-> BidirLess(s[i + 1], s[i])])


(* std::is_sorted_until: the first position in (first, last) whose element *)
(* compares before its predecessor, last if there is none.                 *)
RECURSIVE is_sorted_until(_, _, _)
is_sorted_until(compNextPrev, first, last) ==
    IF first = last \/ first + 1 = last THEN last
    ELSE IF compNextPrev[first] THEN first + 1
    ELSE is_sorted_until(compNextPrev, first + 1, last)

(* Mutant: sorted until operator< alone is violated. *)
is_bidirectionally_sorted_until_forward(s, first, last) ==
    is_sorted_until([i \in 1..(Len(s) - 1) |-> RegionLess(s[i + 1], s[i])], first, last)

is_bidirectionally_sorted_until(s, first, last) ==
    is_sorted_until([i \in 1..(Len(s) - 1) |-> BidirLess(s[i + 1], s[i])], first, last)

(* The while loop of extract_bidirectionally_sorted_ranges; a sub-range is *)
(* the pair <<first, it>> of its bounds.                                   *)
RECURSIVE ExtractSortedLoop(_, _, _, _)
ExtractSortedLoop(s, first, last, result) ==
    IF first = last THEN result
    ELSE LET it == is_bidirectionally_sorted_until(s, first, last)
         IN  ExtractSortedLoop(s, it, last, Append(result, <<first, it>>))

extract_bidirectionally_sorted_ranges(s, first, last) ==
    ExtractSortedLoop(s, first, last, <<>>)

(* The predicates the algorithms hand to <algorithm>, per element of s. *)
Overlaps(s, m) == [i \in 1..Len(s) |-> overlaps(s[i], m)]

Contained(s, m) == [i \in 1..Len(s) |-> contains(m, s[i])]

(***************************************************************************)
(* OverlapRange / ContainedRange (mappable_range.hpp): a pair of           *)
(* boost::filter_iterator over [first, last).  begin() is advanced to the  *)
(* first element passing the filter; iteration skips the others.           *)
(***************************************************************************)
(* Mutant: every element of the base range, the filter not applied. *)
RangeElems_unfiltered(p, first, last) == [k \in 1..(last - first) |-> first + k - 1]

RangeElems(p, first, last) ==
    LET idx == {i \in first..(last - 1) : p[i]}
        RECURSIVE Asc(_)
        Asc(k) == IF k >= last THEN <<>>
                  ELSE IF k \in idx THEN <<k>> \o Asc(k + 1) ELSE Asc(k + 1)
    IN  Asc(first)

make_overlap_range(s, first, last, m) ==
    [first |-> find_if(Overlaps(s, m), first, last), last |-> last,
     elems |-> RangeElems(Overlaps(s, m), first, last)]

make_contained_range(s, first, last, m) ==
    [first |-> find_if(Contained(s, m), first, last), last |-> last,
     elems |-> RangeElems(Contained(s, m), first, last)]

(* size(range, ForwardSortedTag): std::distance over the filter iterators. *)
size_ForwardSorted(r) == Len(r.elems)

(* size(range, BidirectionallySortedTag): distance of the base iterators. *)
size_BidirectionallySorted(r) == r.last - r.first

(***************************************************************************)
(* find_first_after                                                        *)
(***************************************************************************)
(* Mutant: the lower_bound alone, without the scan past the elements that  *)
(* still overlap m.                                                        *)
find_first_after_lower_bound(s, first, last, m) ==
    IF mapped_end(m) = PositionMax THEN last
    ELSE lower_bound([i \in 1..Len(s) |-> RegionLess(s[i], next_mapped_position(m))],
                     first, last)

find_first_after(s, first, last, m) ==
    IF mapped_end(m) = PositionMax THEN last
    ELSE LET itr == lower_bound([i \in 1..Len(s) |-> RegionLess(s[i], next_mapped_position(m))],
                                first, last)
         IN  find_if_not(Overlaps(s, m), itr, last)

(***************************************************************************)
(* overlap_range                                                           *)
(***************************************************************************)
(* Mutant: the left bound by binary search on begin, as the comment in     *)
(* overlap_range warns against (B is found, A is missed).                  *)
overlap_range_ForwardSorted_lower_bound(s, first, last, m) ==
    LET it  == find_first_after(s, first, last, m)
        it2 == lower_bound([i \in 1..Len(s) |-> begins_before(s[i], m)], first, it)
    IN  make_overlap_range(s, it2, it, m)

(* Mutant: the range ends at the first element that does not overlap. *)
overlap_range_ForwardSorted_first_run(s, first, last, m) ==
    LET it  == find_first_after(s, first, last, m)
        it2 == find_if(Overlaps(s, m), first, it)
    IN  make_overlap_range(s, it2, find_if_not(Overlaps(s, m), it2, it), m)

overlap_range_ForwardSorted(s, first, last, m) ==
    LET it  == find_first_after(s, first, last, m)
        it2 == find_if(Overlaps(s, m), first, it)
    IN  make_overlap_range(s, it2, it, m)


(* Mutant: copies the base range [begin.base(), end.base()) unfiltered. *)
copy_overlapped_base(s, m) ==
    LET overlapped == overlap_range_ForwardSorted(s, 1, Len(s) + 1, m)
    IN  SubSeq(s, overlapped.first, overlapped.last - 1)

(* Range {cbegin(overlapped), cend(overlapped)}: the filtered elements. *)
copy_overlapped(s, m) ==
    LET overlapped == overlap_range_ForwardSorted(s, 1, Len(s) + 1, m)
    IN  [k \in 1..Len(overlapped.elems) |-> s[overlapped.elems[k]]]

(* Mutant: the equal_range alone, its boundaries not pushed out. *)
overlap_range_BidirectionallySorted_unwidened(s, first, last, m) ==
    LET lo == lower_bound([i \in 1..Len(s) |-> is_before(s[i], m)], first, last)
        up == upper_bound([i \in 1..Len(s) |-> is_before(m, s[i])], first, last)
    IN  make_overlap_range(s, lo, up, m)

overlap_range_BidirectionallySorted(s, first, last, m) ==
    LET lo == lower_bound([i \in 1..Len(s) |-> is_before(s[i], m)], first, last)
        up == upper_bound([i \in 1..Len(s) |-> is_before(m, s[i])], first, last)
        f  == find_if_not_reverse(Overlaps(s, m), lo, first)
        l  == find_if_not(Overlaps(s, m), up, last)
    IN  make_overlap_range(s, f, l, m)

(* Mutant: the left bound searched from m itself, not from m shifted left. *)
overlap_range_max_mappable_size_unshifted(s, first, last, m, max_mappable_size) ==
    LET it1 == find_first_after(s, first, last, m)
        lb  == lower_bound([i \in 1..Len(s) |-> begins_before(s[i], m)], first, it1)
        it2 == find_if(Overlaps(s, m), lb, it1)
    IN  make_overlap_range(s, it2, it1, m)

overlap_range_max_mappable_size(s, first, last, m, max_mappable_size) ==
    LET it1      == find_first_after(s, first, last, m)
        leftmost == shift(m, 0 - Min2(mapped_begin(m), max_mappable_size))
        lb       == lower_bound([i \in 1..Len(s) |-> begins_before(s[i], leftmost)], first, it1)
        it2      == find_if(Overlaps(s, m), lb, it1)
    IN  make_overlap_range(s, it2, it1, m)

(***************************************************************************)
(* has_overlapped                                                          *)
(***************************************************************************)
binary_search(compElemValue, compValueElem, first, last) ==
    LET i == lower_bound(compElemValue, first, last)
    IN  i # last /\ ~compValueElem[i]

has_overlapped_ForwardSorted(s, first, last, m) ==
    IF first = last THEN FALSE
    ELSE LET it  == find_first_after(s, first, last, m)
             it2 == find_if_not(Overlaps(s, m), it, last)
         IN  IF it # it2 THEN TRUE
             ELSE \E i \in first..(it - 1) : overlaps(m, s[i])

has_overlapped_BidirectionallySorted(s, first, last, m) ==
    binary_search([i \in 1..Len(s) |-> is_before(s[i], m)],
                  [i \in 1..Len(s) |-> is_before(m, s[i])], first, last)

(***************************************************************************)
(* count_overlapped                                                        *)
(***************************************************************************)
(* Mutant: the distance of the base iterators, as for the                  *)
(* BidirectionallySortedTag.                                               *)
count_overlapped_ForwardSorted_base_distance(s, first, last, m) ==
    size_BidirectionallySorted(overlap_range_ForwardSorted(s, first, last, m))

count_overlapped_ForwardSorted(s, first, last, m) ==
    size_ForwardSorted(overlap_range_ForwardSorted(s, first, last, m))

count_overlapped_BidirectionallySorted(s, first, last, m) ==
    size_BidirectionallySorted(overlap_range_BidirectionallySorted(s, first, last, m))

count_overlapped_max_mappable_size(s, first, last, m, max_mappable_size) ==
    Len(overlap_range_max_mappable_size(s, first, last, m, max_mappable_size).elems)

(***************************************************************************)
(* has_exact_overlap                                                       *)
(***************************************************************************)
has_exact_overlap_ForwardSorted(s, first, last, m) ==
    LET overlapped == overlap_range_ForwardSorted(s, first, last, m)
    IN  \E k \in 1..Len(overlapped.elems) : is_same_region(m, s[overlapped.elems[k]])

(* Mutant: the binary search of has_overlapped (is_before), not operator<. *)
has_exact_overlap_BidirectionallySorted_is_before(s, first, last, m) ==
    binary_search([i \in 1..Len(s) |-> is_before(s[i], m)],
                  [i \in 1..Len(s) |-> is_before(m, s[i])], first, last)

has_exact_overlap_BidirectionallySorted(s, first, last, m) ==
    binary_search([i \in 1..Len(s) |-> RegionLess(s[i], m)],
                  [i \in 1..Len(s) |-> RegionLess(m, s[i])], first, last)

(***************************************************************************)
(* contained_range, has_contained, count_contained                         *)
(***************************************************************************)
(* Mutant: the range ends at the first element that is not contained. *)
contained_range_first_run(s, first, last, m) ==
    LET it  == lower_bound([i \in 1..Len(s) |-> begins_before(s[i], m)], first, last)
        it2 == find_if_not(Contained(s, m), it, last)
    IN  make_contained_range(s, it, it2, m)

contained_range(s, first, last, m) ==
    LET it  == lower_bound([i \in 1..Len(s) |-> begins_before(s[i], m)], first, last)
        it2 == find_first_after(s, it, last, m)
    IN  IF it = it2 THEN make_contained_range(s, it, it2, m)
        ELSE make_contained_range(s, it, find_if_reverse(Contained(s, m), it2, it + 1), m)

has_contained(s, first, last, m) ==
    LET it == lower_bound([i \in 1..Len(s) |-> begins_before(s[i], m)], first, last)
    IN  it # last /\ mapped_end(s[it]) <= mapped_end(m)

count_contained(s, first, last, m) == Len(contained_range(s, first, last, m).elems)


(***************************************************************************)
(* Algorithms on the whole range: rightmost/leftmost element,              *)
(* encompassing_region.                                                    *)
(***************************************************************************)
RECURSIVE MaxElementFrom(_, _, _, _)
MaxElementFrom(less, largest, i, last) ==
    IF i >= last THEN largest
    ELSE MaxElementFrom(less, IF less[largest][i] THEN i ELSE largest, i + 1, last)

(* std::max_element: the first of the largest elements, last if empty. *)
max_element(less, first, last) ==
    IF first = last THEN last ELSE MaxElementFrom(less, first, first + 1, last)

RECURSIVE MinElementFrom(_, _, _, _)
MinElementFrom(less, smallest, i, last) ==
    IF i >= last THEN smallest
    ELSE MinElementFrom(less, IF less[i][smallest] THEN i ELSE smallest, i + 1, last)

(* std::min_element: the first of the smallest elements, last if empty. *)
min_element(less, first, last) ==
    IF first = last THEN last ELSE MinElementFrom(less, first, first + 1, last)


(***************************************************************************)
(* max_overlapped / min_overlapped                                         *)
(***************************************************************************)
OverlapSizeLess(s, m) ==
    [i \in 1..Len(s) |-> [j \in 1..Len(s) |->
        overlap_size(m, s[i]) < overlap_size(m, s[j])]]

(* comp seen through the filter iterators: position k stands for elems[k]. *)
FilteredLess(less, elems) ==
    [a \in 1..Len(elems) |-> [b \in 1..Len(elems) |-> less[elems[a]][elems[b]]]]

(* filter_iterator::base(): the element the iterator stands on, and for    *)
(* the end iterator the end of the underlying range.                       *)
FilterBase(r, k) == IF k = Len(r.elems) + 1 THEN r.last ELSE r.elems[k]

detail_max_overlapped(s, r, m) ==
    max_element(FilteredLess(OverlapSizeLess(s, m), r.elems), 1, Len(r.elems) + 1)

detail_min_overlapped(s, r, m) ==
    min_element(FilteredLess(OverlapSizeLess(s, m), r.elems), 1, Len(r.elems) + 1)

max_overlapped(s, first, last, m) ==
    LET overlapped == overlap_range_ForwardSorted(s, first, last, m)
    IN  FilterBase(overlapped, detail_max_overlapped(s, overlapped, m))

min_overlapped(s, first, last, m) ==
    LET overlapped == overlap_range_ForwardSorted(s, first, last, m)
    IN  FilterBase(overlapped, detail_min_overlapped(s, overlapped, m))

ends_equal(lhs, rhs) == lhs.e = rhs.e

leftmost_mappable(s, first, last) ==
    min_element([i \in 1..Len(s) |-> [j \in 1..Len(s) |-> RegionLess(s[i], s[j])]],
                first, last)

(* Mutant: the last element of the range. *)
rightmost_mappable_last(s, first, last) == last - 1

rightmost_mappable(s, first, last) ==
    max_element([i \in 1..Len(s) |-> [j \in 1..Len(s) |->
                    IF ends_equal(s[i], s[j]) THEN begins_before(s[i], s[j])
                                              ELSE ends_before(s[i], s[j])]],
                first, last)

(* encompassing_region(lhs, rhs) of two regions (contig_region.hpp). *)
encompassing_region_of(lhs, rhs) ==
    Region(Min2(lhs.b, rhs.b), Max2(lhs.e, rhs.e))

(* closed_region(lhs, rhs) (contig_region.hpp). *)
closed_region(lhs, rhs) == Region(lhs.b, rhs.e)

LogicError == [kind |-> "logic_error"]

Crash == [kind |-> "crash"]

RegionResult(r) == [kind |-> "region", region |-> r]

(* encompassing_region(first, last). *)
encompassing_region(s, first, last) ==
    IF first = last THEN LogicError
    ELSE RegionResult(encompassing_region_of(s[first],
                                             s[rightmost_mappable(s, first, last)]))

(* What dereferencing the end iterator of an empty range can produce: the  *)
(* behaviour is undefined, so the call may crash or go on with any region. *)
DereferencedEnd == {Crash} \cup {RegionResult(r) : r \in Regions(MaxPos)}

(* encompassing_region(range) on a non-empty range. *)
encompassing_region_Range(s) ==
    RegionResult(encompassing_region_of(s[leftmost_mappable(s, 1, Len(s) + 1)],
                                        s[rightmost_mappable(s, 1, Len(s) + 1)]))


(***************************************************************************)
(* calculate_positional_coverage.  Positions are unsigned: a subtraction   *)
(* wraps modulo PositionMax + 1.                                           *)
(***************************************************************************)
PositionModulus == PositionMax + 1

unsigned_minus(a, b) == (a - b) % PositionModulus

(* Mutant: the end index taken one past the clamped end. *)
IncrementedRange_closed_end(mappable, region) ==
    LET num_positions  == region_size(region)
        first_position == mapped_begin(region)
    IN  <<IF mapped_begin(mappable) <= first_position
          THEN 0 ELSE mapped_begin(mappable) - first_position,
          Min2(unsigned_minus(mapped_end(mappable), first_position) + 1, num_positions)>>

(* The offsets <<it1, it2>> from result.begin() between which the lambda   *)
(* of std::for_each increments the counts for one element.                 *)
IncrementedRange(mappable, region) ==
    LET num_positions  == region_size(region)
        first_position == mapped_begin(region)
    IN  <<IF mapped_begin(mappable) <= first_position
          THEN 0 ELSE mapped_begin(mappable) - first_position,
          Min2(unsigned_minus(mapped_end(mappable), first_position), num_positions)>>

RECURSIVE ForEachIncrement(_, _, _)
(* std::for_each over the elements: counts[i + 1] is the count at offset i. *)
ForEachIncrement(counts, ranges, k) ==
    IF k > Len(ranges) THEN counts
    ELSE ForEachIncrement([i \in DOMAIN counts |->
                              IF ranges[k][1] <= i - 1 /\ i - 1 < ranges[k][2]
                              THEN counts[i] + 1 ELSE counts[i]],
                          ranges, k + 1)

(* Mutant: each element counted once, at the offset of its begin (as       *)
(* calculate_positional_seeds counts).                                     *)
calculate_positional_coverage_seeds(elems, region) ==
    LET ranges == [k \in 1..Len(elems) |->
                      <<IncrementedRange(elems[k], region)[1],
                        Min2(IncrementedRange(elems[k], region)[1] + 1,
                             IncrementedRange(elems[k], region)[2])>>]
    IN  [kind |-> "counts", incremented |-> ranges,
         counts |-> ForEachIncrement([i \in 1..region_size(region) |-> 0], ranges, 1)]

(* calculate_positional_coverage(first, last, region) on the elements      *)
(* elems.  std::transform(it1, it2, ...) with it1 past it2 is undefined.   *)
calculate_positional_coverage(elems, region) ==
    LET ranges == [k \in 1..Len(elems) |-> IncrementedRange(elems[k], region)]
    IN  IF \A k \in 1..Len(ranges) : ranges[k][1] <= ranges[k][2]
        THEN [kind |-> "counts", incremented |-> ranges,
              counts |-> ForEachIncrement([i \in 1..region_size(region) |-> 0], ranges, 1)]
        ELSE [kind |-> "undefined", incremented |-> ranges]

(* What the build can do once std::transform runs past the vector. *)
UndefinedTransform(r) ==
    {[kind |-> "crash", incremented |-> r.incremented],
     [kind |-> "corrupted", incremented |-> r.incremented]}

(* calculate_positional_coverage(range, region): over overlap_range. *)
calculate_positional_coverage_Range(s, region) ==
    calculate_positional_coverage(copy_overlapped(s, region), region)





(***************************************************************************)
(* join_if, join.  A predicate handed to join_if is a record; PredHolds    *)
(* applies it to two elements.                                             *)
(***************************************************************************)
(* inner_distance (contig_region.hpp): signed, 0 for overlapping regions. *)
inner_distance(lhs, rhs) ==
    IF overlaps(lhs, rhs) THEN 0
    ELSE IF is_before(lhs, rhs) THEN rhs.b - lhs.e
    ELSE 0 - (lhs.b - rhs.e)

(* The lambda of join: inner_distance(lhs, rhs) <= n. *)
JoinPred(n) == [kind |-> "inner_distance", n |-> n]

PredHolds(pred, lhs, rhs) ==
    CASE pred.kind = "inner_distance" -> inner_distance(lhs, rhs) <= pred.n
      [] pred.kind = "overlaps"       -> overlaps(lhs, rhs)
      [] pred.kind = "begins_equal"   -> lhs.b = rhs.b

(* The for loop of join_if: the regions pushed, and leftmost and prev at   *)
(* its end.                                                                *)
RECURSIVE JoinLoop(_, _, _, _, _, _, _)
JoinLoop(s, first, last, prev, leftmost, pred, result) ==
    IF first = last THEN [result |-> result, leftmost |-> leftmost, prev |-> prev]
    ELSE IF ~PredHolds(pred, s[prev], s[first])
         THEN JoinLoop(s, first + 1, last, prev + 1, first, pred,
                       Append(result, closed_region(s[leftmost], s[prev])))
         ELSE JoinLoop(s, first + 1, last, prev + 1, leftmost, pred, result)

(* Mutant: the run still open when the loop ends is not pushed. *)
join_if_open_run(s, first, last, pred) ==
    IF first = last THEN <<>>
    ELSE JoinLoop(s, first + 1, last, first, first, pred, <<>>).result

join_if(s, first, last, pred) ==
    IF first = last THEN <<>>
    ELSE LET loop == JoinLoop(s, first + 1, last, first, first, pred, <<>>)
         IN  Append(loop.result, closed_region(s[loop.leftmost], s[loop.prev]))

join(s, first, last, n) == join_if(s, first, last, JoinPred(n))

(***************************************************************************)
(* segment_overlapped_copy                                                 *)
(***************************************************************************)
(* Mutant: rightmost stays on the first element of the segment. *)
next_rightmost_first(s, rightmost, it) == rightmost

(* rightmost moves to it when the element at it ends after it. *)
next_rightmost(s, rightmost, it) ==
    IF ends_before(s[rightmost], s[it]) THEN it ELSE rightmost

(* The inner while loop: the position where it stops. *)
RECURSIVE SegmentScan(_, _, _, _)
SegmentScan(s, it, last, rightmost) ==
    IF it # last /\ (overlaps(s[it], s[rightmost]) \/ ends_equal(s[it], s[rightmost]))
    THEN SegmentScan(s, it + 1, last, next_rightmost(s, rightmost, it))
    ELSE it

(* The outer while loop; a loop that makes no progress never returns. *)
RECURSIVE SegmentLoop(_, _, _, _)
SegmentLoop(s, first, last, result) ==
    IF first = last THEN result
    ELSE LET it == SegmentScan(s, first, last, first)
         IN  IF it = first THEN [kind |-> "diverges"]
             ELSE SegmentLoop(s, it, last, Append(result, SubSeq(s, first, it - 1)))

segment_overlapped_copy(s, first, last) ==
    IF first = last THEN <<>> ELSE SegmentLoop(s, first, last, <<>>)

(* calculate_positional_coverage(range): over the encompassing region of   *)
(* a non-empty range.                                                      *)
calculate_positional_coverage_all(s) ==
    calculate_positional_coverage(s, encompassing_region(s, 1, Len(s) + 1).region)

(***************************************************************************)
(* has_coverage, min_coverage, max_coverage                                *)
(***************************************************************************)
Value(v) == [kind |-> "value", value |-> v]

CountLess(counts) ==
    [i \in 1..Len(counts) |-> [j \in 1..Len(counts) |-> counts[i] < counts[j]]]

(* *std::min_element(cbegin, cend) of the coverage array; on an empty      *)
(* array the end iterator is dereferenced.                                 *)
DereferencedMinElement(coverage) ==
    IF coverage.kind # "counts" \/ coverage.counts = <<>> THEN [kind |-> "undefined"]
    ELSE Value(coverage.counts[min_element(CountLess(coverage.counts), 1,
                                           Len(coverage.counts) + 1)])

DereferencedMaxElement(coverage) ==
    IF coverage.kind # "counts" \/ coverage.counts = <<>> THEN [kind |-> "undefined"]
    ELSE Value(coverage.counts[max_element(CountLess(coverage.counts), 1,
                                           Len(coverage.counts) + 1)])

(* What reading through the end iterator of an empty array can produce. *)
UndefinedCoverage == {Crash} \cup {Value(v) : v \in 0..MaxLen}

has_coverage(s, region) ==
    IF s = <<>> \/ is_empty_region(region) THEN FALSE
    ELSE LET overlapped == copy_overlapped(s, region)
         IN  \E k \in 1..Len(overlapped) : ~is_empty_region(overlapped[k])

has_coverage_all(s) == \E k \in 1..Len(s) : ~is_empty_region(s[k])

min_coverage(s, region) ==
    IF s = <<>> \/ is_empty_region(region) THEN Value(0)
    ELSE DereferencedMinElement(calculate_positional_coverage_Range(s, region))

min_coverage_all(s) ==
    IF s = <<>> THEN Value(0)
    ELSE DereferencedMinElement(calculate_positional_coverage_all(s))

max_coverage(s, region) ==
    IF s = <<>> \/ is_empty_region(region) THEN Value(0)
    ELSE DereferencedMaxElement(calculate_positional_coverage_Range(s, region))

max_coverage_all(s) ==
    IF s = <<>> THEN Value(0)
    ELSE DereferencedMaxElement(calculate_positional_coverage_all(s))

(***************************************************************************)
(* extract_covered_regions, extract_mutually_exclusive_regions,            *)
(* extract_intervening_regions.                                            *)
(***************************************************************************)
RECURSIVE sum_region_sizes(_)
sum_region_sizes(regions) ==
    IF regions = <<>> THEN 0
    ELSE region_size(Head(regions)) + sum_region_sizes(Tail(regions))

RECURSIVE ExtractLoop(_, _, _, _, _, _, _)
(* The for loop of detail::extract_overlapping_regions and the push_back   *)
(* after it; cmp[i][j] is cmp(elem i, elem j).                             *)
ExtractLoop(s, cmp, i, last, first_overlapped, rightmost, result) ==
    IF i >= last
    THEN Append(result, closed_region(s[first_overlapped], s[rightmost]))
    ELSE IF cmp[i][rightmost]
    THEN ExtractLoop(s, cmp, i + 1, last, i, i,
                     IF result = <<>> \/ ~ends_equal(result[Len(result)], s[rightmost])
                     THEN Append(result, closed_region(s[first_overlapped], s[rightmost]))
                     ELSE result)
    ELSE IF ~ends_before(s[i], s[rightmost])
    THEN ExtractLoop(s, cmp, i + 1, last, first_overlapped, i, result)
    ELSE ExtractLoop(s, cmp, i + 1, last, first_overlapped, rightmost, result)

extract_overlapping_regions(s, first, last, cmp) ==
    IF first = last THEN <<>> ELSE ExtractLoop(s, cmp, first, last, first, first, <<>>)

(* Mutant: a new covered region also where the element only touches. *)
is_new_covered_region_touching(s) ==
    [i \in 1..Len(s) |-> [j \in 1..Len(s) |-> mapped_begin(s[i]) >= mapped_end(s[j])]]

is_new_covered_region(s) ==
    [i \in 1..Len(s) |-> [j \in 1..Len(s) |-> mapped_begin(s[i]) > mapped_end(s[j])]]

(* Mutant: a new region only after a gap. *)
is_new_mutually_exclusive_region_gap(s) ==
    [i \in 1..Len(s) |-> [j \in 1..Len(s) |-> mapped_begin(s[i]) > mapped_end(s[j])]]

is_new_mutually_exclusive_region(s) ==
    [i \in 1..Len(s) |-> [j \in 1..Len(s) |-> ~overlaps(s[i], s[j])]]

extract_covered_regions(s) ==
    extract_overlapping_regions(s, 1, Len(s) + 1, is_new_covered_region(s))

extract_mutually_exclusive_regions(s) ==
    extract_overlapping_regions(s, 1, Len(s) + 1, is_new_mutually_exclusive_region(s))


RECURSIVE CountLoop(_, _, _, _, _, _, _)
(* The for loop of detail::count_overlapping_regions and the increment     *)
(* after it.                                                               *)
CountLoop(s, cmp, i, last, rightmost, prev_region_end, result) ==
    IF i >= last THEN result + 1
    ELSE IF cmp[i][rightmost]
    THEN IF result = 0 \/ prev_region_end # mapped_end(s[rightmost])
         THEN CountLoop(s, cmp, i + 1, last, i, mapped_end(s[rightmost]), result + 1)
         ELSE CountLoop(s, cmp, i + 1, last, i, prev_region_end, result)
    ELSE IF ~ends_before(s[i], s[rightmost])
    THEN CountLoop(s, cmp, i + 1, last, i, prev_region_end, result)
    ELSE CountLoop(s, cmp, i + 1, last, rightmost, prev_region_end, result)

(* Mutant: the run still open when the loop ends is not counted. *)
count_overlapping_regions_closed_runs(s, first, last, cmp) ==
    IF first = last THEN 0
    ELSE CountLoop(s, cmp, first, last, first, mapped_end(s[first]), 0) - 1

count_overlapping_regions(s, first, last, cmp) ==
    IF first = last THEN 0
    ELSE CountLoop(s, cmp, first, last, first, mapped_end(s[first]), 0)

count_covered_regions(s) ==
    count_overlapping_regions(s, 1, Len(s) + 1, is_new_covered_region(s))

count_mutually_exclusive_regions(s) ==
    count_overlapping_regions(s, 1, Len(s) + 1, is_new_mutually_exclusive_region(s))

NoRegion == [kind |-> "none"]

(* intervening_region(lhs, rhs) (contig_region.hpp): the gap between lhs   *)
(* and rhs, none if rhs begins before lhs or they overlap or touch.        *)
intervening_region(lhs, rhs) ==
    IF begins_before(rhs, lhs) \/ overlaps(lhs, rhs) \/ lhs.e >= rhs.b THEN NoRegion
    ELSE RegionResult(Region(lhs.e, rhs.b))

(* left_overhang_region(lhs, rhs) (contig_region.hpp). *)
left_overhang_region(lhs, rhs) ==
    IF begins_before(rhs, lhs) THEN Region(lhs.b, lhs.b) ELSE Region(lhs.b, rhs.b)

(* right_overhang_region(lhs, rhs) (contig_region.hpp). *)
right_overhang_region(lhs, rhs) ==
    IF ends_before(lhs, rhs) THEN Region(lhs.e, lhs.e) ELSE Region(rhs.e, lhs.e)

(* std::transform over consecutive pairs, dereferencing each optional. *)
InterveningPairs(regions) ==
    [k \in 1..(Len(regions) - 1) |-> intervening_region(regions[k], regions[k + 1])]

(* Mutant: the gaps between consecutive regions only, no flanks. *)
extract_intervening_regions_no_flanks(regions, m) ==
    IF regions = <<>> THEN [kind |-> "regions", regions |-> <<>>]
    ELSE LET pairs == InterveningPairs(regions)
         IN  IF \E k \in 1..Len(pairs) : pairs[k] = NoRegion
             THEN [kind |-> "undefined"]
             ELSE [kind |-> "regions",
                   regions |-> [k \in 1..Len(pairs) |-> pairs[k].region]]


(* extract_intervening_regions(first, last). *)
extract_intervening_regions_between(regions) ==
    IF regions = <<>> THEN [kind |-> "regions", regions |-> <<>>]
    ELSE LET pairs == InterveningPairs(regions)
         IN  IF \E k \in 1..Len(pairs) : pairs[k] = NoRegion
             THEN [kind |-> "undefined"]
             ELSE [kind |-> "regions",
                   regions |-> [k \in 1..Len(pairs) |-> pairs[k].region]]

(* extract_intervening_regions(first, last, mappable); dereferencing an    *)
(* empty optional is undefined.                                            *)
extract_intervening_regions(regions, m) ==
    IF regions = <<>> THEN [kind |-> "regions", regions |-> <<>>]
    ELSE LET pairs == InterveningPairs(regions)
             left  == IF begins_before(m, regions[1])
                      THEN <<left_overhang_region(m, regions[1])>> ELSE <<>>
             right == IF ends_before(regions[Len(regions)], m)
                      THEN <<right_overhang_region(m, regions[Len(regions)])>> ELSE <<>>
         IN  IF \E k \in 1..Len(pairs) : pairs[k] = NoRegion
             THEN [kind |-> "undefined"]
             ELSE [kind |-> "regions",
                   regions |-> left \o [k \in 1..Len(pairs) |-> pairs[k].region] \o right]

(***************************************************************************)
(* Inputs.                                                                 *)
(***************************************************************************)
SortedSeqs ==
    {s \in UNION {[1..n -> Regions(MaxPos)] : n \in 0..MaxLen} : ForwardSorted(s)}

(* regions_vector and test of std_container_example. *)
ExampleS == <<Region(0, 2), Region(1, 2), Region(1, 3), Region(2, 5), Region(3, 4), Region(4, 5)>>

ExampleQ == Region(2, 4)

(* mappables and the query of the README's "Basic usage". *)
ReadmeS == <<Region(0, 1), Region(1, 3), Region(2, 4)>>

ReadmeQ == Region(1, 3)

Queries ==
    Regions(MaxPos) \cup {ExampleQ, ReadmeQ} \cup {Region(b, PositionMax) : b \in 0..MaxPos}

NoResult == [kind |-> "none"]

Init ==
    /\ S \in SortedSeqs \cup {ExampleS, ReadmeS}
    /\ q \in Queries
    /\ op = "init"
    /\ res = NoResult

Last == Len(S) + 1

(* Candidate values of max_mappable_size. *)
MaxSizes == 0..PositionMax

(* The largest region_size in s (0 for an empty s). *)
largest_size(s) ==
    IF Len(s) = 0 THEN 0
    ELSE CHOOSE n \in {region_size(s[i]) : i \in 1..Len(s)} :
             \A i \in 1..Len(s) : region_size(s[i]) <= n

OverlapRangeForward ==
    /\ op = "init"
    /\ op' = "overlap_range_ForwardSorted"
    /\ res' = overlap_range_ForwardSorted(S, 1, Last, q)
    /\ UNCHANGED <<S, q>>

OverlapRangeBidir ==
    /\ op = "init"
    /\ is_bidirectionally_sorted(S)
    /\ op' = "overlap_range_BidirectionallySorted"
    /\ res' = overlap_range_BidirectionallySorted(S, 1, Last, q)
    /\ UNCHANGED <<S, q>>

OverlapRangeMaxSize ==
    /\ op = "init"
    /\ \E m \in MaxSizes :
          res' = [max_mappable_size |-> m,
                  range |-> overlap_range_max_mappable_size(S, 1, Last, q, m)]
    /\ op' = "overlap_range_max_mappable_size"
    /\ UNCHANGED <<S, q>>

HasOverlappedForward ==
    /\ op = "init"
    /\ op' = "has_overlapped_ForwardSorted"
    /\ res' = has_overlapped_ForwardSorted(S, 1, Last, q)
    /\ UNCHANGED <<S, q>>

HasOverlappedBidir ==
    /\ op = "init"
    /\ is_bidirectionally_sorted(S)
    /\ op' = "has_overlapped_BidirectionallySorted"
    /\ res' = has_overlapped_BidirectionallySorted(S, 1, Last, q)
    /\ UNCHANGED <<S, q>>

CountOverlappedForward ==
    /\ op = "init"
    /\ op' = "count_overlapped_ForwardSorted"
    /\ res' = count_overlapped_ForwardSorted(S, 1, Last, q)
    /\ UNCHANGED <<S, q>>

CountOverlappedBidir ==
    /\ op = "init"
    /\ is_bidirectionally_sorted(S)
    /\ op' = "count_overlapped_BidirectionallySorted"
    /\ res' = count_overlapped_BidirectionallySorted(S, 1, Last, q)
    /\ UNCHANGED <<S, q>>

CountOverlappedMaxSize ==
    /\ op = "init"
    /\ \E m \in MaxSizes :
          res' = [max_mappable_size |-> m,
                  count |-> count_overlapped_max_mappable_size(S, 1, Last, q, m)]
    /\ op' = "count_overlapped_max_mappable_size"
    /\ UNCHANGED <<S, q>>

HasExactOverlapForward ==
    /\ op = "init"
    /\ op' = "has_exact_overlap_ForwardSorted"
    /\ res' = has_exact_overlap_ForwardSorted(S, 1, Last, q)
    /\ UNCHANGED <<S, q>>

HasExactOverlapBidir ==
    /\ op = "init"
    /\ is_bidirectionally_sorted(S)
    /\ op' = "has_exact_overlap_BidirectionallySorted"
    /\ res' = has_exact_overlap_BidirectionallySorted(S, 1, Last, q)
    /\ UNCHANGED <<S, q>>

ContainedRange ==
    /\ op = "init"
    /\ op' = "contained_range"
    /\ res' = contained_range(S, 1, Last, q)
    /\ UNCHANGED <<S, q>>

HasContained ==
    /\ op = "init"
    /\ op' = "has_contained"
    /\ res' = has_contained(S, 1, Last, q)
    /\ UNCHANGED <<S, q>>

CountContained ==
    /\ op = "init"
    /\ op' = "count_contained"
    /\ res' = count_contained(S, 1, Last, q)
    /\ UNCHANGED <<S, q>>


(* copy_overlapped, then overlap_range on the copy with the same query. *)
CopyOverlapped ==
    /\ op = "init"
    /\ op' = "copy_overlapped"
    /\ res' = LET T == copy_overlapped(S, q)
              IN  [copied |-> T,
                   overlapped |-> overlap_range_ForwardSorted(T, 1, Len(T) + 1, q)]
    /\ UNCHANGED <<S, q>>


FindFirstAfter ==
    /\ op = "init"
    /\ op' = "find_first_after"
    /\ res' = find_first_after(S, 1, Last, q)
    /\ UNCHANGED <<S, q>>


MaxOverlapped ==
    /\ op = "init"
    /\ op' = "max_overlapped"
    /\ res' = max_overlapped(S, 1, Last, q)
    /\ UNCHANGED <<S, q>>

MinOverlapped ==
    /\ op = "init"
    /\ op' = "min_overlapped"
    /\ res' = min_overlapped(S, 1, Last, q)
    /\ UNCHANGED <<S, q>>

Next ==
    \/ OverlapRangeForward
    \/ OverlapRangeBidir
    \/ OverlapRangeMaxSize
    \/ HasOverlappedForward
    \/ HasOverlappedBidir
    \/ CountOverlappedForward
    \/ CountOverlappedBidir
    \/ CountOverlappedMaxSize
    \/ HasExactOverlapForward
    \/ HasExactOverlapBidir
    \/ ContainedRange
    \/ HasContained
    \/ CountContained
    \/ CopyOverlapped
    \/ FindFirstAfter
    \/ MaxOverlapped
    \/ MinOverlapped

Spec == Init /\ [][Next]_vars


(***************************************************************************)
(* Second specification: the algorithms on a whole range and a region      *)
(* (encompassing, covered, mutually exclusive and intervening regions,     *)
(* positional coverage).  q is the region argument.                        *)
(***************************************************************************)
(* The sequence of the encompassing_region scenario. *)
EncompassS == <<Region(1, 3), Region(2, 5)>>

(* The region of the positional coverage scenario. *)
ExampleRegion == Region(0, 5)


(* Two elements that only touch. *)
TouchingS == <<Region(0, 2), Region(2, 4)>>

InitRegions ==
    /\ S \in SortedSeqs \cup {ExampleS, EncompassS, TouchingS}
    /\ q \in Regions(MaxPos) \cup {ExampleRegion}
    /\ op = "init"
    /\ res = NoResult

EncompassingRegion ==
    /\ op = "init"
    /\ op' = "encompassing_region"
    /\ res' = encompassing_region(S, 1, Last)
    /\ UNCHANGED <<S, q>>

EncompassingRegionRange ==
    /\ op = "init"
    /\ op' = "encompassing_region_Range"
    /\ IF Len(S) = 0
       THEN res' \in DereferencedEnd
       ELSE res' = encompassing_region_Range(S)
    /\ UNCHANGED <<S, q>>


CalculatePositionalCoverage ==
    /\ op = "init"
    /\ op' = "calculate_positional_coverage"
    /\ LET r == calculate_positional_coverage(S, q)
       IN  IF r.kind = "undefined" THEN res' \in UndefinedTransform(r) ELSE res' = r
    /\ UNCHANGED <<S, q>>

CalculatePositionalCoverageRange ==
    /\ op = "init"
    /\ op' = "calculate_positional_coverage_Range"
    /\ LET r == calculate_positional_coverage_Range(S, q)
       IN  IF r.kind = "undefined" THEN res' \in UndefinedTransform(r) ELSE res' = r
    /\ UNCHANGED <<S, q>>


ExtractCoveredRegions ==
    /\ op = "init"
    /\ op' = "extract_covered_regions"
    /\ res' = extract_covered_regions(S)
    /\ UNCHANGED <<S, q>>

ExtractMutuallyExclusiveRegions ==
    /\ op = "init"
    /\ op' = "extract_mutually_exclusive_regions"
    /\ res' = extract_mutually_exclusive_regions(S)
    /\ UNCHANGED <<S, q>>

(* What dereferencing an empty optional can produce. *)
UndefinedIntervening == {Crash, [kind |-> "garbage"]}

(* extract_covered_regions, then extract_intervening_regions of the        *)
(* covered regions against the encompassing region of S or against q.      *)
CoveredThenIntervening ==
    /\ op = "init"
    /\ Len(S) > 0
    /\ op' = "covered_then_intervening"
    /\ \E within \in {encompassing_region(S, 1, Last).region, q} :
          LET covered     == extract_covered_regions(S)
              intervening == extract_intervening_regions(covered, within)
          IN  \E outcome \in (IF intervening.kind = "undefined"
                              THEN UndefinedIntervening ELSE {intervening}) :
                 res' = [covered |-> covered, within |-> within, intervening |-> outcome]
    /\ UNCHANGED <<S, q>>


CountCoveredRegions ==
    /\ op = "init"
    /\ op' = "count_covered_regions"
    /\ res' = count_covered_regions(S)
    /\ UNCHANGED <<S, q>>

CountMutuallyExclusiveRegions ==
    /\ op = "init"
    /\ op' = "count_mutually_exclusive_regions"
    /\ res' = count_mutually_exclusive_regions(S)
    /\ UNCHANGED <<S, q>>


ExtractInterveningRegions ==
    /\ op = "init"
    /\ op' = "extract_intervening_regions"
    /\ LET r == extract_intervening_regions_between(S)
       IN  IF r.kind = "undefined" THEN res' \in UndefinedIntervening ELSE res' = r
    /\ UNCHANGED <<S, q>>

ExtractInterveningRegionsWithin ==
    /\ op = "init"
    /\ op' = "extract_intervening_regions_within"
    /\ LET r == extract_intervening_regions(S, q)
       IN  IF r.kind = "undefined" THEN res' \in UndefinedIntervening ELSE res' = r
    /\ UNCHANGED <<S, q>>


HasCoverage ==
    /\ op = "init"
    /\ op' = "has_coverage"
    /\ res' = has_coverage(S, q)
    /\ UNCHANGED <<S, q>>

HasCoverageAll ==
    /\ op = "init"
    /\ op' = "has_coverage_all"
    /\ res' = has_coverage_all(S)
    /\ UNCHANGED <<S, q>>

MinCoverage ==
    /\ op = "init"
    /\ op' = "min_coverage"
    /\ LET r == min_coverage(S, q)
       IN  IF r.kind = "undefined" THEN res' \in UndefinedCoverage ELSE res' = r
    /\ UNCHANGED <<S, q>>

MinCoverageAll ==
    /\ op = "init"
    /\ op' = "min_coverage_all"
    /\ LET r == min_coverage_all(S)
       IN  IF r.kind = "undefined" THEN res' \in UndefinedCoverage ELSE res' = r
    /\ UNCHANGED <<S, q>>

MaxCoverage ==
    /\ op = "init"
    /\ op' = "max_coverage"
    /\ LET r == max_coverage(S, q)
       IN  IF r.kind = "undefined" THEN res' \in UndefinedCoverage ELSE res' = r
    /\ UNCHANGED <<S, q>>

MaxCoverageAll ==
    /\ op = "init"
    /\ op' = "max_coverage_all"
    /\ LET r == max_coverage_all(S)
       IN  IF r.kind = "undefined" THEN res' \in UndefinedCoverage ELSE res' = r
    /\ UNCHANGED <<S, q>>


ExtractBidirectionallySortedRanges ==
    /\ op = "init"
    /\ op' = "extract_bidirectionally_sorted_ranges"
    /\ res' = extract_bidirectionally_sorted_ranges(S, 1, Last)
    /\ UNCHANGED <<S, q>>


SegmentOverlappedCopy ==
    /\ op = "init"
    /\ op' = "segment_overlapped_copy"
    /\ res' = segment_overlapped_copy(S, 1, Last)
    /\ UNCHANGED <<S, q>>


(* The distances and predicates a caller passes to join and join_if. *)
Distances == (0 - 1)..MaxPos

Preds == {JoinPred(n) : n \in Distances} \cup {[kind |-> "overlaps"], [kind |-> "begins_equal"]}

JoinIf ==
    /\ op = "init"
    /\ op' = "join_if"
    /\ \E pred \in Preds :
          res' = [pred |-> pred, joined |-> join_if(S, 1, Last, pred)]
    /\ UNCHANGED <<S, q>>

(* join, then join again on its result with the same distance. *)
Join ==
    /\ op = "init"
    /\ op' = "join"
    /\ \E n \in Distances :
          LET joined == join(S, 1, Last, n)
          IN  res' = [n |-> n, joined |-> joined,
                      rejoined |-> join(joined, 1, Len(joined) + 1, n)]
    /\ UNCHANGED <<S, q>>

NextRegions ==
    \/ EncompassingRegion
    \/ EncompassingRegionRange
    \/ CalculatePositionalCoverage
    \/ CalculatePositionalCoverageRange
    \/ ExtractCoveredRegions
    \/ ExtractMutuallyExclusiveRegions
    \/ CoveredThenIntervening
    \/ CountCoveredRegions
    \/ CountMutuallyExclusiveRegions
    \/ ExtractInterveningRegions
    \/ ExtractInterveningRegionsWithin
    \/ HasCoverage
    \/ HasCoverageAll
    \/ MinCoverage
    \/ MinCoverageAll
    \/ MaxCoverage
    \/ MaxCoverageAll
    \/ ExtractBidirectionallySortedRanges
    \/ SegmentOverlappedCopy
    \/ JoinIf
    \/ Join

SpecRegions == InitRegions /\ [][NextRegions]_vars


(***************************************************************************)
(* Third specification: the container wrappers MappableFlatSet and         *)
(* MappableFlatMultiSet (mappable_flat_set.hpp,                            *)
(* mappable_flat_multi_set.hpp).  S is the backing sequence, q the         *)
(* argument of the last call, op the container type and last member        *)
(* called, res what the call returned and the sequence before it.          *)
(***************************************************************************)
MaxSetPos == 2

(* The number of alleles the set of mappable_set_example holds; containers *)
(* are followed up to this size.                                           *)
AlleleSetSize == 3

(* The payloads (allele sequences) told apart by operator== and operator<. *)
Payloads == {1, 2}

Elem(region, payload) == [b |-> region.b, e |-> region.e, payload |-> payload]

Elems == {Elem(r, p) : r \in Regions(MaxSetPos), p \in Payloads}

(* The elements of the multiset: reads, whose payload takes no part in a   *)
(* comparison.                                                             *)
Reads == {Elem(r, 1) : r \in Regions(MaxSetPos)}

(* operator< of a mappable with a payload: by region, then by payload. *)
ElemLess(lhs, rhs) ==
    IF is_same_region(lhs, rhs) THEN lhs.payload < rhs.payload ELSE RegionLess(lhs, rhs)

InsertAt(s, i, x) == SubSeq(s, 1, i - 1) \o <<x>> \o SubSeq(s, i, Len(s))

RECURSIVE sort(_)
(* std::sort under operator<. *)
sort(s) ==
    IF s = <<>> THEN <<>>
    ELSE LET rest == sort(Tail(s))
             x    == Head(s)
         IN  InsertAt(rest, lower_bound([i \in 1..Len(rest) |-> ElemLess(rest[i], x)],
                                        1, Len(rest) + 1), x)

RECURSIVE unique(_)
(* std::unique and erase: adjacent equal elements collapsed. *)
unique(s) ==
    IF Len(s) <= 1 THEN s
    ELSE IF s[1] = s[2] THEN unique(Tail(s))
    ELSE <<s[1]>> \o unique(Tail(s))

(* Mutant: the new element appended at the end. *)
flat_multiset_insert_back(s, x) == [elements |-> Append(s, x), inserted |-> TRUE]

(* MappableFlatMultiSet::insert / emplace. *)
flat_multiset_insert(s, x) ==
    [elements |-> InsertAt(s, upper_bound([i \in 1..Len(s) |-> ElemLess(x, s[i])],
                                          1, Len(s) + 1), x),
     inserted |-> TRUE]

(* Mutant: an element is refused when one with its region is stored. *)
flat_set_insert_by_region(s, x) ==
    LET it == lower_bound([i \in 1..Len(s) |-> RegionLess(s[i], x)], 1, Len(s) + 1)
    IN  IF it = Len(s) + 1 \/ ~is_same_region(s[it], x)
        THEN [elements |-> InsertAt(s, it, x), inserted |-> TRUE]
        ELSE [elements |-> s, inserted |-> FALSE]

(* MappableFlatSet::insert / emplace. *)
flat_set_insert(s, x) ==
    LET it == lower_bound([i \in 1..Len(s) |-> ElemLess(s[i], x)], 1, Len(s) + 1)
    IN  IF it = Len(s) + 1 \/ s[it] # x
        THEN [elements |-> InsertAt(s, it, x), inserted |-> TRUE]
        ELSE [elements |-> s, inserted |-> FALSE]

(* erase(mappable): every stored element equal to it. *)
flat_erase(s, x) ==
    LET Kept(elem) == elem # x IN SelectSeq(s, Kept)

flat_erase_overlapped(s, m) ==
    LET Kept(elem) == ~overlaps(elem, m) IN SelectSeq(s, Kept)

flat_erase_contained(s, m) ==
    LET Kept(elem) == ~contains(m, elem) IN SelectSeq(s, Kept)

FlatSetOps ==
    {"MappableFlatSet", "MappableFlatSet::insert", "MappableFlatSet::emplace",
     "MappableFlatSet::erase", "MappableFlatSet::erase_overlapped",
     "MappableFlatSet::erase_contained"}

FlatMultiSetOps ==
    {"MappableFlatMultiSet", "MappableFlatMultiSet::insert", "MappableFlatMultiSet::erase",
     "MappableFlatMultiSet::erase_overlapped", "MappableFlatMultiSet::erase_contained"}

(* The unsorted bulks a container is constructed from (empty included). *)
Bulks(elems) == UNION {[1..n -> elems] : n \in 0..2}

InitContainers ==
    /\ op \in {"MappableFlatSet", "MappableFlatMultiSet"}
    /\ res \in {[before |-> bulk] : bulk \in Bulks(IF op = "MappableFlatSet" THEN Elems ELSE Reads)}
    /\ S = IF op = "MappableFlatSet" THEN unique(sort(res.before)) ELSE sort(res.before)
    /\ q = NoResult

FlatSetInsert ==
    /\ op \in FlatSetOps
    /\ \E x \in Elems :
          /\ Len(flat_set_insert(S, x).elements) <= AlleleSetSize
          /\ q' = x
          /\ S' = flat_set_insert(S, x).elements
          /\ res' = [before |-> S, inserted |-> flat_set_insert(S, x).inserted]
    /\ op' = "MappableFlatSet::insert"

FlatSetEmplace ==
    /\ op \in FlatSetOps
    /\ \E region \in Regions(MaxSetPos), payload \in Payloads :
          LET x == Elem(region, payload)
          IN  /\ Len(flat_set_insert(S, x).elements) <= AlleleSetSize
              /\ q' = x
              /\ S' = flat_set_insert(S, x).elements
              /\ res' = [before |-> S, inserted |-> flat_set_insert(S, x).inserted]
    /\ op' = "MappableFlatSet::emplace"

FlatMultiSetInsert ==
    /\ op \in FlatMultiSetOps
    /\ \E x \in Reads :
          /\ Len(flat_multiset_insert(S, x).elements) <= AlleleSetSize
          /\ q' = x
          /\ S' = flat_multiset_insert(S, x).elements
          /\ res' = [before |-> S, inserted |-> flat_multiset_insert(S, x).inserted]
    /\ op' = "MappableFlatMultiSet::insert"

FlatErase ==
    /\ \E x \in (IF op \in FlatSetOps THEN Elems ELSE Reads) :
          /\ q' = x
          /\ S' = flat_erase(S, x)
          /\ res' = [before |-> S, erased |-> Len(S) - Len(flat_erase(S, x))]
    /\ op' = IF op \in FlatSetOps THEN "MappableFlatSet::erase"
                                  ELSE "MappableFlatMultiSet::erase"

FlatEraseOverlapped ==
    /\ \E m \in Regions(MaxSetPos) :
          /\ q' = m
          /\ S' = flat_erase_overlapped(S, m)
          /\ res' = [before |-> S, erased |-> Len(S) - Len(flat_erase_overlapped(S, m))]
    /\ op' = IF op \in FlatSetOps THEN "MappableFlatSet::erase_overlapped"
                                  ELSE "MappableFlatMultiSet::erase_overlapped"

FlatEraseContained ==
    /\ \E m \in Regions(MaxSetPos) :
          /\ q' = m
          /\ S' = flat_erase_contained(S, m)
          /\ res' = [before |-> S, erased |-> Len(S) - Len(flat_erase_contained(S, m))]
    /\ op' = IF op \in FlatSetOps THEN "MappableFlatSet::erase_contained"
                                  ELSE "MappableFlatMultiSet::erase_contained"

NextContainers ==
    \/ FlatSetInsert
    \/ FlatSetEmplace
    \/ FlatMultiSetInsert
    \/ FlatErase
    \/ FlatEraseOverlapped
    \/ FlatEraseContained

SpecContainers == InitContainers /\ [][NextContainers]_vars

(***************************************************************************)
(* Properties.                                                             *)
(***************************************************************************)
RECURSIVE IdxSeq(_)
(* The indices of A in ascending order. *)
IdxSeq(A) ==
    IF A = {} THEN <<>>
    ELSE LET lo == CHOOSE x \in A : \A y \in A : x <= y
         IN  <<lo>> \o IdxSeq(A \ {lo})

OverlappingIdx == IdxSeq({i \in 1..Len(S) : overlaps(S[i], q)})

ContainedIdx == IdxSeq({i \in 1..Len(S) : q.b <= S[i].b /\ S[i].e <= q.e})

RegionsOf(idxs) == [k \in 1..Len(idxs) |-> S[idxs[k]]]

(* C1: the forward-sorted overlap_range reports exactly the elements of S  *)
(* that overlap q, each once and in S's order; the example of              *)
(* std_container_example gives [1,3) [2,5) [3,4).                          *)
C1_OverlapRangeExact ==
    op = "overlap_range_ForwardSorted" =>
        /\ res.elems = OverlappingIdx
        /\ (S = ExampleS /\ q = ExampleQ =>
                RegionsOf(res.elems) = <<Region(1, 3), Region(2, 5), Region(3, 4)>>)

C1_Witness ==
    /\ op = "overlap_range_ForwardSorted"
    /\ S = ExampleS /\ q = ExampleQ
    /\ res.elems = <<3, 4, 5>>

C3_HasContainedIffNonEmpty ==
    op = "has_contained" => (res <=> Len(ContainedIdx) > 0)

(* C4: on a bidirectionally-sorted S the forward-sorted and the            *)
(* bidirectionally-sorted overlap_range return the same first and last     *)
(* bounds and the same elements.                                           *)
C4_BidirEqualsForward ==
    op = "overlap_range_BidirectionallySorted" =>
        LET fwd == overlap_range_ForwardSorted(S, 1, Last, q)
        IN  /\ res.first = fwd.first
            /\ res.last = fwd.last
            /\ res.elems = fwd.elems

C4_Witness ==
    /\ op = "overlap_range_BidirectionallySorted"
    /\ Len(S) = 3
    /\ res.first = 2 /\ res.last = 3
    /\ is_empty_region(S[2]) /\ ~is_empty_region(q)
(* C5: with a bound m that is at least the size of every element of S,   *)
(* the bounded-size overlap_range reports the same elements as the         *)
(* forward-sorted overlap_range.                                           *)
C5_MaxSizeEqualsForward ==
    (op = "overlap_range_max_mappable_size" /\ res.max_mappable_size >= largest_size(S)) =>
        res.range.elems = overlap_range_ForwardSorted(S, 1, Last, q).elems

C5_Witness ==
    /\ op = "overlap_range_max_mappable_size"
    /\ res.max_mappable_size >= largest_size(S)
    /\ 0 < res.max_mappable_size /\ res.max_mappable_size < q.b
    /\ Len(res.range.elems) >= 2
    /\ res.range.first > 1
    /\ S[res.range.first].b < q.b

C7_HasOverlappedIffNonEmpty ==
    op \in {"has_overlapped_ForwardSorted", "has_overlapped_BidirectionallySorted"} =>
        (res <=> Len(OverlappingIdx) > 0)

(* C8: every element reported by contained_range is also reported by the   *)
(* forward-sorted overlap_range.                                           *)
C8_ContainedImpliesOverlapped ==
    op = "contained_range" =>
        LET overlapped == overlap_range_ForwardSorted(S, 1, Last, q).elems
        IN  \A k \in 1..Len(res.elems) :
                \E j \in 1..Len(overlapped) : overlapped[j] = res.elems[k]

C8_Witness ==
    /\ op = "contained_range"
    /\ Len(res.elems) = 2
    /\ ~is_empty_region(q)
    /\ S[res.elems[1]] = Region(q.b, q.b)
    /\ S[res.elems[2]] = Region(q.e, q.e)

(* C9 (as claimed): a zero-length query [p,p) is never reported as         *)
(* overlapping an element whose begin is p.                                *)
BeginsElsewhereIdx == IdxSeq({i \in 1..Len(S) : overlaps(S[i], q) /\ S[i].b # q.b})

TouchingIdx == IdxSeq({i \in 1..Len(S) : S[i].b <= q.b /\ q.b <= S[i].e})

C10_HasExactOverlap ==
    op \in {"has_exact_overlap_ForwardSorted", "has_exact_overlap_BidirectionallySorted"} =>
        (res <=> \E i \in 1..Len(S) : S[i].b = q.b /\ S[i].e = q.e)

C10_Witness ==
    /\ op = "has_exact_overlap_BidirectionallySorted"
    /\ res = TRUE
    /\ is_empty_region(q)
    /\ Len(S) = 3 /\ S[2] = q /\ S[1] # q /\ S[3] # q

(* C11: overlap_range on the copy made by copy_overlapped(S, q), with the  *)
(* same q, reports every element of the copy, in the copy's order, and the *)
(* copy holds the overlapping elements of S in S's order.                  *)
C11_CopyOverlappedIdempotent ==
    op = "copy_overlapped" =>
        /\ res.copied = RegionsOf(OverlappingIdx)
        /\ res.overlapped.elems = [k \in 1..Len(res.copied) |-> k]
        /\ res.overlapped.first = 1
        /\ res.overlapped.last = Len(res.copied) + 1

C11_Witness ==
    /\ op = "copy_overlapped"
    /\ Len(res.copied) >= 2
    /\ Len(res.copied) < Len(S)
    /\ \E i \in 1..Len(S) : i > OverlappingIdx[1] /\ ~overlaps(S[i], q)
                            /\ i < OverlappingIdx[Len(OverlappingIdx)]

Contiguous(idxs) == \A k \in 1..(Len(idxs) - 1) : idxs[k + 1] = idxs[k] + 1

(* C12 as stated: the elements reported by overlap_range and by            *)
(* contained_range are a contiguous run of S.                              *)
C12_ReportedContiguous ==
    op \in {"overlap_range_ForwardSorted", "contained_range"} => Contiguous(res.elems)

(* C12: the elements reported by overlap_range and contained_range are in  *)
(* S's order and lie in one base range [first, last) of S, and the         *)
(* elements of that base range left out are exactly those that do not      *)
(* overlap (are not contained in) q; they are a contiguous run of S when   *)
(* S is bidirectionally sorted.                                            *)
C12_ReportedOrderedSubsequence ==
    op \in {"overlap_range_ForwardSorted", "contained_range"} =>
        LET p == IF op = "contained_range" THEN Contained(S, q) ELSE Overlaps(S, q)
            reported == {res.elems[k] : k \in 1..Len(res.elems)}
        IN  /\ \A k \in 1..(Len(res.elems) - 1) : res.elems[k] < res.elems[k + 1]
            /\ reported \subseteq res.first..(res.last - 1)
            /\ \A i \in res.first..(res.last - 1) : i \in reported <=> p[i]
            /\ is_bidirectionally_sorted(S) => Contiguous(res.elems)

C12_Witness ==
    /\ op = "overlap_range_ForwardSorted"
    /\ res.elems = <<1, 3>>
    /\ ~overlaps(S[2], q)

(* C13 as stated: both overloads of encompassing_region answer an empty    *)
(* sequence with the explicit error, and with nothing else.                *)
C13_EmptyFailsExplicitly ==
    (op \in {"encompassing_region", "encompassing_region_Range"} /\ Len(S) = 0) =>
        res = LogicError

(* The largest mapped_end in s. *)
LargestEnd(s) == CHOOSE e \in {s[i].e : i \in 1..Len(s)} : \A i \in 1..Len(s) : s[i].e <= e

(* C14: for a non-empty forward-sorted S both overloads of                 *)
(* encompassing_region return [begin of the first element, largest end of  *)
(* any element); <<[1,3), [2,5)>> gives [1,5).                             *)
C14_EncompassingRegion ==
    (op \in {"encompassing_region", "encompassing_region_Range"} /\ Len(S) > 0) =>
        /\ res = RegionResult(Region(S[1].b, LargestEnd(S)))
        /\ \A i \in 1..Len(S) : contains(res.region, S[i])
        /\ (S = EncompassS => res.region = Region(1, 5))

C14_Witness ==
    /\ op = "encompassing_region"
    /\ Len(S) = 3
    /\ S[3].e < S[2].e /\ S[1].e < S[2].e
    /\ res.region = Region(S[1].b, S[2].e)

(* The number of elements of S covering position pos. *)
Depth(pos) == Cardinality({k \in 1..Len(S) : S[k].b <= pos /\ pos < S[k].e})

(* C15: calculate_positional_coverage(S, region) has region_size(region)   *)
(* entries, and entry i is the number of elements e of S with              *)
(* e.begin <= region.begin + i < e.end.                                    *)
C15_PositionalCoverage ==
    op = "calculate_positional_coverage_Range" =>
        /\ res.kind = "counts"
        /\ Len(res.counts) = region_size(q)
        /\ \A i \in 0..(region_size(q) - 1) : res.counts[i + 1] = Depth(q.b + i)

C15_Witness ==
    /\ op = "calculate_positional_coverage_Range"
    /\ res.kind = "counts"
    /\ region_size(q) >= 2
    /\ \E k \in 1..Len(S) : S[k].e <= q.b /\ ~is_empty_region(S[k])
    /\ \E k \in 1..Len(S) : S[k].b < q.b /\ S[k].e > q.b
    /\ \E i \in 1..Len(res.counts) : res.counts[i] = 2

(* C16 as stated: the coverage of the example sequence over [0,5) is       *)
(* 1, 2, 2, 2, 2.                                                          *)
C16_ExampleDepthsAsStated ==
    (op \in {"calculate_positional_coverage", "calculate_positional_coverage_Range"}
     /\ S = ExampleS /\ q = ExampleRegion) =>
        (res.kind = "counts" /\ res.counts = <<1, 2, 2, 2, 2>>)

(* C16: the coverage of the example sequence over [0,5) is 1, 3, 2, 2, 2:  *)
(* position 1 is covered by [0,2), [1,2) and [1,3).                        *)
C16_ExampleDepths ==
    (op \in {"calculate_positional_coverage", "calculate_positional_coverage_Range"}
     /\ S = ExampleS /\ q = ExampleRegion) =>
        (res.kind = "counts" /\ res.counts = <<1, 3, 2, 2, 2>>)

C16_Witness ==
    /\ op = "calculate_positional_coverage"
    /\ S = ExampleS /\ q = ExampleRegion
    /\ res.kind = "counts"
    /\ res.counts[2] = 3

(* C17 as stated: in the iterator overload every element is given an index *)
(* range within the counts with lower index <= upper index, the call ends  *)
(* normally, and an element entirely before region.begin or entirely at or *)
(* after region.end changes no count.                                      *)
C17_OutsideElementsClamped ==
    op = "calculate_positional_coverage" =>
        /\ res.kind = "counts"
        /\ \A k \in 1..Len(S) :
              /\ 0 <= res.incremented[k][1]
              /\ res.incremented[k][1] <= res.incremented[k][2]
              /\ res.incremented[k][2] <= region_size(q)
              /\ (S[k].e <= q.b \/ S[k].b >= q.e) =>
                    res.incremented[k][1] = res.incremented[k][2]

(* C18: for a non-empty S, the sizes of extract_covered_regions(S) plus    *)
(* the sizes of extract_intervening_regions of those regions against a     *)
(* region containing every element of S (the encompassing region of S      *)
(* among them) add up to the size of that region.                          *)
C18_CoveredPlusIntervening ==
    (op = "covered_then_intervening"
     /\ \A i \in 1..Len(S) : contains(res.within, S[i])) =>
        /\ res.intervening.kind = "regions"
        /\ sum_region_sizes(res.covered) + sum_region_sizes(res.intervening.regions)
               = region_size(res.within)
        /\ (res.within = encompassing_region(S, 1, Last).region =>
                Len(res.intervening.regions) = Len(res.covered) - 1)

C18_Witness ==
    /\ op = "covered_then_intervening"
    /\ \A i \in 1..Len(S) : contains(res.within, S[i])
    /\ res.within # encompassing_region(S, 1, Last).region
    /\ Len(res.covered) = 2
    /\ sum_region_sizes(res.covered) > 0
    /\ Len(res.intervening.regions) = 2

(* The largest mapped_end among elements from..to of S, to >= from. *)
LargestEndIn(from, to) ==
    CHOOSE e \in {S[i].e : i \in from..to} : \A i \in from..to : S[i].e <= e

(* The closed regions of the runs of S that begin at the indices starts. *)
Hulls(starts) ==
    LET idx == IdxSeq(starts)
    IN  [k \in 1..Len(idx) |->
            Region(S[idx[k]].b,
                   LargestEndIn(idx[k], IF k = Len(idx) THEN Len(S) ELSE idx[k + 1] - 1))]

CoveredStarts ==
    {i \in 1..Len(S) : i = 1 \/ S[i].b > LargestEndIn(1, i - 1)}

(* C19: extract_covered_regions starts a region at the first element and   *)
(* at each element whose begin exceeds the largest end before it, and      *)
(* returns the closed region of each such run; the regions ascend, each    *)
(* beginning after the previous one ends, and every element of S lies in   *)
(* exactly one of them.                                                    *)
C19_CoveredRegions ==
    op = "extract_covered_regions" =>
        /\ res = Hulls(CoveredStarts)
        /\ \A k \in 1..(Len(res) - 1) : res[k].e < res[k + 1].b
        /\ \A i \in 1..Len(S) :
              Cardinality({k \in 1..Len(res) : contains(res[k], S[i])}) = 1
        /\ \A k \in 1..Len(res) : \E i \in 1..Len(S) : S[i].b = res[k].b

C19_Witness ==
    /\ op = "extract_covered_regions"
    /\ Len(S) = 3 /\ Len(res) = 2
    /\ S[1].e = S[2].b /\ ~is_empty_region(S[1]) /\ ~is_empty_region(S[2])
    /\ S[3].b > S[2].e

(* The last of the elements from..to of S with the largest mapped_end. *)
RightmostIn(from, to) ==
    CHOOSE i \in from..to :
        /\ S[i].e = LargestEndIn(from, to)
        /\ \A j \in (i + 1)..to : S[j].e < S[i].e

(* The start indices A: the first element, and each element that does not  *)
(* overlap the rightmost-ending element of the run it follows.             *)
ExclusiveStarts ==
    CHOOSE A \in SUBSET (1..Len(S)) :
        \A i \in 1..Len(S) :
            i \in A <=>
                \/ i = 1
                \/ LET from == CHOOSE a \in A : a < i /\ \A b \in A : b < i => b <= a
                   IN  ~overlaps(S[i], S[RightmostIn(from, i - 1)])

(* C20: extract_mutually_exclusive_regions starts a region at each element *)
(* that does not overlap the rightmost-ending element of the current run   *)
(* and extends the region otherwise; the regions do not overlap each       *)
(* other, every element of S lies in exactly one, and two elements that    *)
(* only touch give two regions where extract_covered_regions gives one.    *)
C20_MutuallyExclusiveRegions ==
    op = "extract_mutually_exclusive_regions" =>
        /\ res = Hulls(ExclusiveStarts)
        /\ \A k, l \in 1..Len(res) : k # l => ~overlaps(res[k], res[l])
        /\ \A i \in 1..Len(S) :
              Cardinality({k \in 1..Len(res) : contains(res[k], S[i])}) = 1
        /\ (Len(S) = 2 /\ S[1].e = S[2].b
            /\ ~is_empty_region(S[1]) /\ ~is_empty_region(S[2])) =>
                /\ res = S
                /\ extract_covered_regions(S) = <<Region(S[1].b, S[2].e)>>

C20_Witness ==
    /\ op = "extract_mutually_exclusive_regions"
    /\ S = TouchingS
    /\ res = <<Region(0, 2), Region(2, 4)>>

(* C21: count_covered_regions(S) is the length of                          *)
(* extract_covered_regions(S), and count_mutually_exclusive_regions(S) the *)
(* length of extract_mutually_exclusive_regions(S), empty S and            *)
(* zero-length elements included.                                          *)
C21_CountEqualsExtract ==
    /\ op = "count_covered_regions" => res = Len(extract_covered_regions(S))
    /\ op = "count_mutually_exclusive_regions" =>
          res = Len(extract_mutually_exclusive_regions(S))

C21_Witness ==
    /\ op = "count_mutually_exclusive_regions"
    /\ res = 3
    /\ Len(extract_covered_regions(S)) = 2
    /\ \E i \in 1..Len(S) : is_empty_region(S[i])

(* The elements of before whose indices are not in removed, in order. *)
Survivors(before, removed) ==
    LET idx == IdxSeq((1..Len(before)) \ removed)
    IN  [k \in 1..Len(idx) |-> before[idx[k]]]

(* C22: whatever insert, emplace, erase, erase_overlapped and              *)
(* erase_contained calls a flat set or flat multiset has gone through,     *)
(* from empty or from an unsorted bulk, its backing sequence is            *)
(* forward-sorted, and an erase by query leaves exactly the elements it    *)
(* does not match, in the order they had.                                  *)
C22_ContainerSorted ==
    /\ ForwardSorted(S)
    /\ \A i \in 1..(Len(S) - 1) : ~ElemLess(S[i + 1], S[i])
    /\ op \in {"MappableFlatSet::erase_overlapped", "MappableFlatMultiSet::erase_overlapped"} =>
          S = Survivors(res.before, {i \in 1..Len(res.before) : overlaps(res.before[i], q)})
    /\ op \in {"MappableFlatSet::erase_contained", "MappableFlatMultiSet::erase_contained"} =>
          S = Survivors(res.before, {i \in 1..Len(res.before) : contains(q, res.before[i])})
    /\ op \in {"MappableFlatSet::erase", "MappableFlatMultiSet::erase"} =>
          S = Survivors(res.before, {i \in 1..Len(res.before) : res.before[i] = q})

C22_Witness ==
    /\ op = "MappableFlatMultiSet::erase_overlapped"
    /\ Len(res.before) = 3
    /\ S = <<res.before[1], res.before[3]>>
    /\ overlaps(res.before[2], q)

(* C23: a flat set never stores two equal entities: inserting an entity    *)
(* equal in interval and payload to a stored one leaves the size as it     *)
(* was, and inserting one that differs from every stored entity, be it     *)
(* only in the payload, adds one.                                          *)
C23_FlatSetUnique ==
    op \in FlatSetOps =>
        /\ \A i, j \in 1..Len(S) : i # j => S[i] # S[j]
        /\ op \in {"MappableFlatSet::insert", "MappableFlatSet::emplace"} =>
              LET stored == \E i \in 1..Len(res.before) : res.before[i] = q
              IN  /\ stored => (S = res.before /\ ~res.inserted)
                  /\ ~stored => /\ Len(S) = Len(res.before) + 1
                                /\ res.inserted
                                /\ \E i \in 1..Len(S) : S[i] = q

C23_Witness ==
    /\ op = "MappableFlatSet::emplace"
    /\ Len(res.before) = 2
    /\ Len(S) = 3
    /\ \E i \in 1..2 : is_same_region(res.before[i], q) /\ res.before[i].payload # q.payload

(* The gaps [a.end, b.begin) of the consecutive pairs a, b of S that       *)
(* neither overlap nor touch, in order.                                    *)
Gaps ==
    LET idx == IdxSeq({k \in 1..(Len(S) - 1) : S[k].e < S[k + 1].b})
    IN  [n \in 1..Len(idx) |-> Region(S[idx[n]].e, S[idx[n] + 1].b)]

(* C24 as stated: extract_intervening_regions completes on every           *)
(* forward-sorted S and returns the gap of each consecutive pair that      *)
(* neither overlaps nor touches (between the flanks, in the overload       *)
(* with a region), a pair that overlaps or touches adding nothing.         *)
C24_InterveningGapsOnly ==
    /\ op = "extract_intervening_regions" =>
          (res.kind = "regions" /\ res.regions = Gaps)
    /\ op = "extract_intervening_regions_within" =>
          /\ res.kind = "regions"
          /\ \E i \in 0..1, j \in 0..1 :
                /\ Len(res.regions) = i + Len(Gaps) + j
                /\ SubSeq(res.regions, i + 1, i + Len(Gaps)) = Gaps

OverlappingIndices == {i \in 1..Len(S) : overlaps(S[i], q)}

C26_MaxMinOverlapped ==
    /\ op = "max_overlapped" =>
          IF OverlappingIndices = {} THEN res = Last
          ELSE /\ res \in OverlappingIndices
               /\ \A i \in OverlappingIndices :
                     /\ overlap_size(q, S[i]) <= overlap_size(q, S[res])
                     /\ i < res => overlap_size(q, S[i]) < overlap_size(q, S[res])
    /\ op = "min_overlapped" =>
          IF OverlappingIndices = {} THEN res = Last
          ELSE /\ res \in OverlappingIndices
               /\ \A i \in OverlappingIndices :
                     /\ overlap_size(q, S[i]) >= overlap_size(q, S[res])
                     /\ i < res => overlap_size(q, S[i]) > overlap_size(q, S[res])

(* The part of C26 about a query that something overlaps. *)
C26_WhenOverlapped ==
    OverlappingIndices # {} => C26_MaxMinOverlapped

(* What the code returns when nothing overlaps: the end of the overlap     *)
(* range, which is find_first_after(S, q).                                 *)
C26_NoneOverlapped ==
    (op \in {"max_overlapped", "min_overlapped"} /\ OverlappingIndices = {}) =>
        res = find_first_after(S, 1, Last, q)

(***************************************************************************)
(* C27: min_coverage, max_coverage and has_coverage are total.  When no    *)
(* position is counted (empty S, a zero-length region, or elements that    *)
(* span no position) they give 0, 0 and false; otherwise the minimum and   *)
(* maximum over the counted positions of the number of elements covering   *)
(* the position, and whether some counted position is covered.  They       *)
(* never read an empty coverage array.                                     *)
(***************************************************************************)
CoverageAt(pos) == Cardinality({i \in 1..Len(S) : S[i].b <= pos /\ pos < S[i].e})

CountedPositions(region) == {pos \in 0..PositionMax : region.b <= pos /\ pos < region.e}

SetMin(vs) == IF vs = {} THEN 0 ELSE CHOOSE v \in vs : \A w \in vs : v <= w

SetMax(vs) == IF vs = {} THEN 0 ELSE CHOOSE v \in vs : \A w \in vs : w <= v

EncompassingPositions ==
    IF S = <<>> THEN {}
    ELSE CountedPositions(encompassing_region(S, 1, Last).region)

C27_RegionOverloads ==
    /\ op = "has_coverage" =>
          res = (\E pos \in CountedPositions(q) : CoverageAt(pos) > 0)
    /\ op = "min_coverage" =>
          res = Value(SetMin({CoverageAt(pos) : pos \in CountedPositions(q)}))
    /\ op = "max_coverage" =>
          res = Value(SetMax({CoverageAt(pos) : pos \in CountedPositions(q)}))

C27_RangeOverloads ==
    /\ op = "has_coverage_all" =>
          res = (\E pos \in EncompassingPositions : CoverageAt(pos) > 0)
    /\ op = "min_coverage_all" =>
          res = Value(SetMin({CoverageAt(pos) : pos \in EncompassingPositions}))
    /\ op = "max_coverage_all" =>
          res = Value(SetMax({CoverageAt(pos) : pos \in EncompassingPositions}))

C27_CoverageTotal == C27_RegionOverloads /\ C27_RangeOverloads

(* The range overloads on an S whose elements span at least one position. *)
C27_RangeOverloadsCounted ==
    EncompassingPositions # {} => C27_RangeOverloads

(***************************************************************************)
(* C28: extract_bidirectionally_sorted_ranges(S) returns consecutive       *)
(* non-empty sub-ranges whose concatenation is S; each is bidirectionally  *)
(* sorted (adjacent elements non-decreasing by (begin, end) and by end)    *)
(* and ends exactly at the first violation, so no partition of S into      *)
(* bidirectionally sorted consecutive runs has fewer parts.  ExampleS      *)
(* gives two runs, split before [3,4).                                     *)
(***************************************************************************)
(* The parts of S cut before the positions in cuts. *)
RunSorted(a, b) ==
    \A i \in a..(b - 2) :
        /\ ~RegionLess(S[i + 1], S[i])
        /\ S[i].e <= S[i + 1].e

SortedPartition(cuts) ==
    \A a \in cuts \cup {1} :
        RunSorted(a, CHOOSE b \in cuts \cup {Last} :
                         b > a /\ \A c \in cuts : c > a => b <= c)

C28_BidirectionallySortedRanges ==
    op = "extract_bidirectionally_sorted_ranges" =>
        /\ (S = <<>>) = (res = <<>>)
        /\ \A k \in 1..Len(res) : res[k][1] < res[k][2] /\ RunSorted(res[k][1], res[k][2])
        /\ res # <<>> => res[1][1] = 1 /\ res[Len(res)][2] = Last
        /\ \A k \in 1..(Len(res) - 1) :
              /\ res[k][2] = res[k + 1][1]
              /\ ~RunSorted(res[k][1], res[k][2] + 1)
        /\ S # <<>> =>
              \A cuts \in SUBSET (2..Len(S)) :
                  SortedPartition(cuts) => Cardinality(cuts) + 1 >= Len(res)
        /\ S = ExampleS => res = <<<<1, 5>>, <<5, 7>>>>

C28_Witness ==
    /\ op = "extract_bidirectionally_sorted_ranges"
    /\ S # ExampleS
    /\ Len(res) = 2
    /\ res[1][2] - res[1][1] = 2

(***************************************************************************)
(* C29: segment_overlapped_copy(S) terminates for every forward-sorted S,  *)
(* zero-length elements included, and returns non-empty segments whose     *)
(* concatenation in order is S; an element joins the current segment       *)
(* exactly when it overlaps, or has the same end as, the rightmost-ending  *)
(* element of the segment so far (the first one, if several end there).    *)
(***************************************************************************)
RECURSIVE Concat(_)
Concat(segments) ==
    IF segments = <<>> THEN <<>> ELSE Head(segments) \o Concat(Tail(segments))

(* The position in S of the first element of segment k. *)
SegmentFirst(k) == Len(Concat(SubSeq(res, 1, k - 1))) + 1

RightmostEnding(a, j) ==
    CHOOSE r \in a..j : /\ \A t \in a..j : S[t].e <= S[r].e
                        /\ \A t \in a..(r - 1) : S[t].e < S[r].e

Joins(a, i) ==
    LET r == RightmostEnding(a, i - 1)
    IN  overlaps(S[i], S[r]) \/ ends_equal(S[i], S[r])

C29_SegmentOverlapped ==
    op = "segment_overlapped_copy" =>
        /\ res \in Seq(Seq(Regions(PositionMax)))
        /\ \A k \in 1..Len(res) : res[k] # <<>>
        /\ Concat(res) = S
        /\ \A k \in 1..Len(res) :
              LET a == SegmentFirst(k)
                  b == SegmentFirst(k + 1)
              IN  /\ \A i \in (a + 1)..(b - 1) : Joins(a, i)
                  /\ b <= Len(S) => ~Joins(a, b)

(* A segment that an element joins through the rightmost-ending element    *)
(* although it does not overlap the segment's first; the element is        *)
(* zero-length.                                                            *)
C29_Witness ==
    /\ op = "segment_overlapped_copy"
    /\ Len(res) = 1 /\ Len(S) = 3
    /\ ~overlaps(S[3], S[1]) /\ ~ends_equal(S[3], S[1])
    /\ is_empty_region(S[3])

(***************************************************************************)
(* C30: join_if(R, pred) returns, in order, one closed region per maximal  *)
(* run of consecutive elements whose adjacent pairs all satisfy pred: 1    *)
(* plus the number of failing adjacent pairs on a non-empty R, nothing on  *)
(* an empty R.  For sorted pairwise non-overlapping R, consecutive outputs *)
(* of join(R, n) are more than n apart and join(join(R, n), n) equals      *)
(* join(R, n).                                                             *)
(***************************************************************************)
FailingPairs(pred) == {i \in 1..(Len(S) - 1) : ~PredHolds(pred, S[i], S[i + 1])}

(* The first and the last position of the k-th maximal run. *)
RunFirst(pred, k) ==
    CHOOSE a \in 1..Len(S) :
        /\ a = 1 \/ (a - 1) \in FailingPairs(pred)
        /\ Cardinality({i \in FailingPairs(pred) : i < a}) = k - 1

RunLast(pred, k) ==
    CHOOSE b \in 1..Len(S) :
        /\ b = Len(S) \/ b \in FailingPairs(pred)
        /\ Cardinality({i \in FailingPairs(pred) : i < b}) = k - 1

PairwiseNonOverlapping ==
    \A i \in 1..Len(S) : \A j \in (i + 1)..Len(S) : ~overlaps(S[i], S[j])

C30_JoinIf ==
    /\ op = "join_if" =>
          /\ (S = <<>>) = (res.joined = <<>>)
          /\ S # <<>> =>
                /\ Len(res.joined) = 1 + Cardinality(FailingPairs(res.pred))
                /\ \A k \in 1..Len(res.joined) :
                      res.joined[k] = Region(S[RunFirst(res.pred, k)].b,
                                             S[RunLast(res.pred, k)].e)
    /\ (op = "join" /\ PairwiseNonOverlapping) =>
          /\ \A k \in 1..(Len(res.joined) - 1) :
                res.joined[k + 1].b - res.joined[k].e > res.n
          /\ res.rejoined = res.joined

(* join merges some regions and keeps others apart. *)
C30_Witness ==
    /\ op = "join" /\ PairwiseNonOverlapping
    /\ Len(S) = 3 /\ Len(res.joined) = 2
    /\ res.n > 0

====
